---- MODULE Spec2Model ----
(***************************************************************************)
(* Order-book aggregation service: the gRPC front-end (book_summary and    *)
(* its registry of summary receivers), the request handler of run(), the   *)
(* OrderbookAggregator task with its exchange adapters, the broadcast bus  *)
(* and the per-subscription forwarder handle_subscription_stream.          *)
(***************************************************************************)
EXTENDS Integers, Sequences, FiniteSets, TLC

(* ---------------------------------------------------------------- bounds *)

\* order books one adapter task delivers before its websocket goes quiet
MaxBooks == 2
\* slots of the broadcast bus (the source asks for 100; scaled down)
BusCapacity == 1
\* slots of the per-client mpsc queue (the source asks for 100; scaled down)
ClientQueueCapacity == 1
\* levels per side of a Summary and of best_asks/best_bids (the source asks
\* for 10; scaled down)
Depth == 2
\* frames an adapter task reads off its websocket before the connection ends
MaxFrames == 3
\* the largest max_attempts a caller of the client library sets
MaxClientAttempts == 2
\* items the server puts on the response streams of one client
MaxMessages == 2
\* the longest list of Levels handed to a sort
MaxLevels == 4

(* ------------------------------------------------------ program constants *)

\* let max_attempts = 5;
MaxAttempts == 5
\* if orderbook_stream.len() < 2
MinSources == 2

(* ------------------------------------------------------------ value types *)

\* The book_summary calls of a run: a first and a second subscriber. Each
\* call can lead to at most one aggregator.
Calls == {1, 2}
AggIds == {1, 2}
NoCall == 0
NoAgg == 0

\* Request.traded_pair is an Option: None when the field is absent.
Absent == [none |-> TRUE]

\* Symbols are strings, kept as sequences of characters.
EthBtc == [first |-> <<"E", "T", "H">>, second |-> <<"B", "T", "C">>]
XyzBtc == [first |-> <<"X", "Y", "Z">>, second |-> <<"B", "T", "C">>]
EmptyPair == [first |-> <<>>, second |-> <<>>]

Pairs == {EthBtc, XyzBtc, EmptyPair}
Requests == Pairs \cup {Absent}

\* Other spellings of ETH/BTC: in lower case, and split elsewhere.
EthBtcLower == [first |-> <<"e", "t", "h">>, second |-> <<"b", "t", "c">>]
EthBtcSplit == [first |-> <<"E", "T">>, second |-> <<"H", "B", "T", "C">>]
Spellings == {EthBtc, EthBtcLower, EthBtcSplit}

\* Every TradedPair that can be a key of the registry.
Keys == Pairs \cup Spellings

\* The requests of one run: calls for a pair that both exchanges list, or
\* calls for pairs that Bitstamp turns down, or calls for one pair in
\* several spellings; any call may lack its pair.
Workloads ==
    {{EthBtc, Absent}, {XyzBtc, EmptyPair, Absent}, Spellings \cup {Absent}}

\* impl Hash for TradedPair: what is fed to the Hasher. A String writes its
\* bytes and then the byte 0xFF.
hash(pair) == pair.first \o <<"0xFF">> \o pair.second \o <<"0xFF">>

ToLowercase(ch) ==
    CASE ch = "E" -> "e" [] ch = "T" -> "t" [] ch = "H" -> "h"
      [] ch = "B" -> "b" [] ch = "C" -> "c" [] ch = "X" -> "x"
      [] ch = "Y" -> "y" [] ch = "Z" -> "z" [] OTHER -> ch

\* TradedPair::symbol_lower: format!("{}{}", first, second).to_lowercase()
symbol_lower(pair) ==
    LET joined == pair.first \o pair.second
    IN  [i \in 1..Len(joined) |-> ToLowercase(joined[i])]

eq_ignoring_case(a, b) == symbol_lower(a) = symbol_lower(b)

\* PartialEq of TradedPair (derived on the generated type; Eq is the marker
\* impl): both fields equal as Strings.
eq(a, b) == a.first = b.first /\ a.second = b.second

\* HashMap::get / insert: the slot of a key is the one whose key has the
\* same hash and is equal to it.
Slot(pair) == CHOOSE k \in Keys : hash(k) = hash(pair) /\ eq(k, pair)

\* The entries of Bitstamp's allowlist that the modelled pairs can hit.
VALID_PAIRS ==
    { <<"e", "t", "h", "b", "t", "c">>,
      <<"b", "t", "c", "u", "s", "d">>,
      <<"x", "r", "p", "b", "t", "c">> }

\* run(): vec![Box::new(binance), Box::new(bitstamp)]
exchanges == <<"Binance", "Bitstamp">>
ExchangeNames == {exchanges[i] : i \in 1..Len(exchanges)}

stream_order_book_without_allowlist(exchange, pair) == "Ok"

\* Exchange::stream_order_book_for_pair, as seen by its caller: Binance
\* builds its URL and returns the receiver; Bitstamp first consults its
\* allowlist.
stream_order_book_for_pair(exchange, pair) ==
    IF exchange = "Bitstamp" /\ symbol_lower(pair) \notin VALID_PAIRS
    THEN "Err"
    ELSE "Ok"

SpawnsBeforeCheck(exchange, pair) == TRUE

\* Whether a call of stream_order_book_for_pair spawns the adapter task:
\* tokio::spawn comes after the allowlist check of Bitstamp and after the
\* URL is built for Binance, so a call that returns Err has spawned nothing.
Spawns(exchange, pair) == stream_order_book_for_pair(exchange, pair) = "Ok"

\* A message text is a sequence of its parts (format! arguments in place).
NoItem == [kind |-> "none"]

Unavailable ==
    [kind |-> "status", code |-> "Unavailable",
     text |-> <<"The service failed to provide a response">>]

ToClientItemFixedText(msg) ==
    IF msg.kind = "summary"
    THEN msg
    ELSE [kind |-> "status", code |-> "Internal", text |-> <<"Internal error">>]

\* handle_subscription_stream's match on a bus message.
ToClientItem(msg) ==
    IF msg.kind = "summary"
    THEN msg
    ELSE [kind |-> "status", code |-> "Internal", text |-> msg.text]

(* ------------------------------------------------------------------ state *)

VARIABLES
    callPc,            \* position of each book_summary call
    callPair,          \* the traded_pair of the call's request
    callResult,        \* what the call returned
    map_lock,          \* holder of the Mutex around summary_receivers
    summary_receivers, \* the registry: pair -> aggregator whose bus it holds
    new_subscriber,    \* mpsc channel from book_summary to the request handler
    new_request,       \* oneshot reply per call: the aggregator's receiver
    request_handler,   \* the request handler task: "running" or "ended"
    aggCount,          \* aggregators created so far
    aggPair,           \* traded_pair of each aggregator
    aggPc,             \* position of each aggregator task
    attempts,          \* stream_order_book_for_pair calls made, per exchange
    orderbook_stream,  \* SelectAll: the adapter streams still in it
    orderbooks,        \* the HashMap buffer source -> order book
    received,          \* order books the aggregator has taken so far
    bus,               \* every message sent on the broadcast channel, in order
    delivered,         \* order books taken from each adapter stream
    spawned,           \* adapter tasks spawned for each aggregator, per exchange
    fwdPc,             \* position of each forwarder task
    fwdBus,            \* aggregator whose bus the forwarder is subscribed to
    fwdFrom,           \* bus position at which the forwarder subscribed
    fwdNext,           \* messages of the bus the forwarder is past
    fwdItem,           \* item the forwarder is about to send to the client
    fwdLagged,         \* the forwarder's recv returned RecvError::Lagged
    clientStream,      \* items accepted by the per-client queue, in order
    clientTaken,       \* how many of them the client has read
    clientOpen,        \* the client still holds the receiving end
    mergePc,           \* position of a call of merge_orderbooks_into_summary
    mergeBooks,        \* the order books handed to it, by source
    mergeOrder,        \* the order in which its iterator yields them
    mergeSummary,      \* what the call produced
    bestLevels,        \* a call of best_asks or best_bids and what it produced
    adapterPc,         \* position of the adapter task of an aggregator and exchange
    frames,            \* what the websocket of the task has yielded, in order
    sent,              \* order books the task has put on its channel, in order
    cliPc,             \* position of the task of connect_to_summary_service
    cliMax,            \* settings.max_attempts
    cliAttempts,       \* its counter `attempts`
    cliCalls,          \* connection attempts it has made in all
    cliServed,         \* how many of them the server accepted
    cliItems,          \* items it has sent on the stream it returned, in order
    cliLog,            \* history: per attempt, the Summaries it delivered
    levelsIn,          \* a Vec<Level> about to be sorted
    levelsOut          \* the comparator used and the Vec after the sort

frontVars == <<callPc, callPair, callResult, map_lock, summary_receivers,
               new_subscriber, new_request, request_handler>>
aggVars == <<aggCount, aggPair, aggPc, attempts, orderbook_stream,
             orderbooks, received, bus, delivered, spawned>>
fwdVars == <<fwdPc, fwdBus, fwdFrom, fwdNext, fwdItem, fwdLagged>>
clientVars == <<clientStream, clientTaken, clientOpen>>
mergeVars == <<mergePc, mergeBooks, mergeOrder, mergeSummary, bestLevels>>
serviceVars == <<frontVars, aggVars, fwdVars, clientVars>>
\* The state of the parts that are also run on their own.
adapterVars == <<adapterPc, frames, sent>>
retryVars == <<cliPc, cliMax, cliAttempts, cliCalls, cliServed, cliItems,
               cliLog>>
sortVars == <<levelsIn, levelsOut>>
sideVars == <<mergeVars, adapterVars, retryVars, sortVars>>
vars == <<serviceVars, sideVars>>

ServiceInit ==
    /\ callPc = [c \in Calls |-> "idle"]
    /\ callPair = [c \in Calls |-> Absent]
    /\ callResult = [c \in Calls |-> "none"]
    /\ map_lock = NoCall
    /\ summary_receivers = [p \in Keys |-> NoAgg]
    /\ new_subscriber = <<>>
    /\ new_request = [c \in Calls |-> NoAgg]
    /\ request_handler = "running"
    /\ aggCount = 0
    /\ aggPair = [a \in AggIds |-> Absent]
    /\ aggPc = [a \in AggIds |-> "none"]
    /\ attempts = [a \in AggIds |-> [e \in ExchangeNames |-> 0]]
    /\ orderbook_stream = [a \in AggIds |-> {}]
    /\ orderbooks = [a \in AggIds |-> {}]
    /\ received = [a \in AggIds |-> 0]
    /\ bus = [a \in AggIds |-> <<>>]
    /\ delivered = [a \in AggIds |-> [e \in ExchangeNames |-> 0]]
    /\ spawned = [a \in AggIds |-> [e \in ExchangeNames |-> 0]]
    /\ fwdPc = [c \in Calls |-> "none"]
    /\ fwdBus = [c \in Calls |-> NoAgg]
    /\ fwdFrom = [c \in Calls |-> 0]
    /\ fwdNext = [c \in Calls |-> 0]
    /\ fwdItem = [c \in Calls |-> NoItem]
    /\ fwdLagged = [c \in Calls |-> FALSE]
    /\ clientStream = [c \in Calls |-> <<>>]
    /\ clientTaken = [c \in Calls |-> 0]
    /\ clientOpen = [c \in Calls |-> TRUE]

NoSummary == [none |-> TRUE]
NoLevels == [none |-> TRUE]

\* No merge and no call on an order book is under way.
MergeIdle ==
    /\ mergePc = "idle"
    /\ mergeBooks = <<>>
    /\ mergeOrder = <<>>
    /\ mergeSummary = NoSummary
    /\ bestLevels = NoLevels

\* No adapter task has taken a step.
AdapterIdle ==
    /\ adapterPc = [a \in AggIds |-> [e \in ExchangeNames |-> "idle"]]
    /\ frames = [a \in AggIds |-> [e \in ExchangeNames |-> <<>>]]
    /\ sent = [a \in AggIds |-> [e \in ExchangeNames |-> <<>>]]

\* The client library has not been called.
RetryIdle ==
    /\ cliPc = "idle"
    /\ cliMax = 0
    /\ cliAttempts = 0
    /\ cliCalls = 0
    /\ cliServed = 0
    /\ cliItems = <<>>
    /\ cliLog = <<>>

\* No list of Levels is being sorted on its own.
SortIdle ==
    /\ levelsIn = <<>>
    /\ levelsOut = NoLevels

\* The service as run() starts it.
Init ==
    /\ ServiceInit
    /\ MergeIdle
    /\ AdapterIdle
    /\ RetryIdle
    /\ SortIdle

TerminatedByReturnOnly(a) ==
    aggPc[a] \in {"ret_insufficient", "ret_disconnected", "ret_end"}

\* The aggregator task has ended: its summary_sender is dropped and the
\* bus is closed.
Terminated(a) ==
    aggPc[a] \in {"ret_insufficient", "ret_disconnected", "ret_end", "panicked"}

(* ------------------------------------------- OrderbookService::book_summary *)

LockFreeUnguarded == TRUE

\* self.summary_receivers.lock().await succeeds once no other call holds it.
LockFree == map_lock = NoCall

SpawnForwarderAtHead(c, a) ==
    /\ fwdPc' = [fwdPc EXCEPT ![c] = "recv"]
    /\ fwdBus' = [fwdBus EXCEPT ![c] = a]
    /\ fwdFrom' = [fwdFrom EXCEPT ![c] = 0]
    /\ fwdNext' = [fwdNext EXCEPT ![c] = 0]
    /\ UNCHANGED <<fwdItem, fwdLagged>>

\* A forwarder is spawned on a receiver resubscribed from the bus of `a`:
\* it starts at the current tail.
SpawnForwarder(c, a) ==
    /\ fwdPc' = [fwdPc EXCEPT ![c] = "recv"]
    /\ fwdBus' = [fwdBus EXCEPT ![c] = a]
    /\ fwdFrom' = [fwdFrom EXCEPT ![c] = Len(bus[a])]
    /\ fwdNext' = [fwdNext EXCEPT ![c] = Len(bus[a])]
    /\ UNCHANGED <<fwdItem, fwdLagged>>

\* The RPC arrives: request.traded_pair.ok_or(invalid_argument)?
BookSummaryBegin(c, req) ==
    /\ UNCHANGED sideVars
    /\ callPc[c] = "idle"
    /\ \A d \in Calls : d < c => callPc[d] # "idle"
    /\ \E w \in Workloads : req \in w /\ \A d \in Calls : callPair[d] \in w
    /\ IF req = Absent
       THEN /\ callPc' = [callPc EXCEPT ![c] = "returned"]
            /\ callResult' = [callResult EXCEPT ![c] = "InvalidArgument"]
            /\ UNCHANGED callPair
       ELSE /\ callPc' = [callPc EXCEPT ![c] = "lock"]
            /\ callPair' = [callPair EXCEPT ![c] = req]
            /\ UNCHANGED callResult
    /\ UNCHANGED <<map_lock, summary_receivers, new_subscriber, new_request,
                   request_handler>>
    /\ UNCHANGED <<aggVars, fwdVars, clientVars>>

SendNeverFails == FALSE

\* self.new_subscriber_notifier.send(..).await gives Err when the receiver
\* of the request handler is gone; the oneshot sender inside the message
\* is dropped with it.
SendFails == request_handler = "ended"

\* The lock is taken and the map looked up. A hit resubscribes, spawns the
\* forwarder and returns (the guard is dropped on return); a miss sends the
\* pair to the request handler and awaits the reply with the lock held.
\* When the send fails the reply channel is closed at once: the call
\* returns the status made of the RecvError, and the guard is dropped.
BookSummaryLock(c) ==
    /\ UNCHANGED sideVars
    /\ callPc[c] = "lock"
    /\ LockFree
    /\ IF summary_receivers[Slot(callPair[c])] # NoAgg
       THEN /\ SpawnForwarder(c, summary_receivers[Slot(callPair[c])])
            /\ callPc' = [callPc EXCEPT ![c] = "returned"]
            /\ callResult' = [callResult EXCEPT ![c] = "Ok"]
            /\ UNCHANGED <<map_lock, new_subscriber>>
       ELSE IF SendFails
       THEN /\ callPc' = [callPc EXCEPT ![c] = "returned"]
            /\ callResult' = [callResult EXCEPT ![c] = "Unknown"]
            /\ UNCHANGED <<map_lock, new_subscriber, fwdVars>>
       ELSE /\ map_lock' = c
            /\ new_subscriber' =
                   Append(new_subscriber, [pair |-> callPair[c], call |-> c])
            /\ callPc' = [callPc EXCEPT ![c] = "await_reply"]
            /\ UNCHANGED <<callResult, fwdVars>>
    /\ UNCHANGED <<callPair, summary_receivers, new_request, request_handler>>
    /\ UNCHANGED <<aggVars, clientVars>>

LockKeptAfterInsert(c) == c

\* drop(map_lock) after the insert
LockAfterInsert(c) == NoCall

\* The oneshot reply has come: resubscribe, insert the receiver into the
\* map, drop the lock, spawn the forwarder, return the client stream.
BookSummaryReply(c) ==
    /\ UNCHANGED sideVars
    /\ callPc[c] = "await_reply"
    /\ new_request[c] # NoAgg
    /\ SpawnForwarder(c, new_request[c])
    /\ summary_receivers' =
           [summary_receivers EXCEPT ![Slot(callPair[c])] = new_request[c]]
    /\ map_lock' = LockAfterInsert(c)
    /\ callPc' = [callPc EXCEPT ![c] = "returned"]
    /\ callResult' = [callResult EXCEPT ![c] = "Ok"]
    /\ UNCHANGED <<callPair, new_subscriber, new_request, request_handler>>
    /\ UNCHANGED <<aggVars, clientVars>>

\* The oneshot sender was dropped without a reply (the request handler
\* ended with the request still in its channel): new_request_rx.await gives
\* Err, the `?` returns the status made of it and the guard is dropped.
BookSummaryNoReply(c) ==
    /\ UNCHANGED sideVars
    /\ callPc[c] = "await_reply"
    /\ new_request[c] = NoAgg
    /\ request_handler = "ended"
    /\ map_lock' = NoCall
    /\ callPc' = [callPc EXCEPT ![c] = "returned"]
    /\ callResult' = [callResult EXCEPT ![c] = "Unknown"]
    /\ UNCHANGED <<callPair, summary_receivers, new_subscriber, new_request,
                   request_handler>>
    /\ UNCHANGED <<aggVars, fwdVars, clientVars>>

(* ------------------------------------------------- run(): request handler *)

\* One turn of the handler loop: OrderbookAggregator::new, the receiver of
\* subscribe() sent back on the oneshot, the aggregator task spawned.
RequestHandler ==
    /\ UNCHANGED sideVars
    /\ request_handler = "running"
    /\ new_subscriber # <<>>
    /\ LET req == Head(new_subscriber)
           a == aggCount + 1
       IN  /\ aggCount' = a
           /\ aggPair' = [aggPair EXCEPT ![a] = req.pair]
           /\ aggPc' = [aggPc EXCEPT ![a] = "spawned"]
           /\ new_request' = [new_request EXCEPT ![req.call] = a]
    /\ new_subscriber' = Tail(new_subscriber)
    /\ UNCHANGED <<callPc, callPair, callResult, map_lock, summary_receivers,
                   request_handler>>
    /\ UNCHANGED <<attempts, orderbook_stream, orderbooks, received, bus, delivered,
                   spawned>>
    /\ UNCHANGED <<fwdVars, clientVars>>

\* The request handler task ends (it is dropped with the runtime, or its
\* loop is left): its receiver is dropped and with it the requests still
\* queued and their oneshot senders.
RequestHandlerEnds ==
    /\ UNCHANGED sideVars
    /\ request_handler = "running"
    /\ request_handler' = "ended"
    /\ new_subscriber' = <<>>
    /\ UNCHANGED <<callPc, callPair, callResult, map_lock, summary_receivers,
                   new_request>>
    /\ UNCHANGED <<aggVars, fwdVars, clientVars>>

(* --------------------------------------------- OrderbookAggregator::start *)

BroadcastSendWaitsForSlowest(a) ==
    \A c \in Calls :
        (fwdBus[c] = a /\ fwdPc[c] \in {"recv", "send"})
            => Len(bus[a]) - fwdNext[c] < BusCapacity

\* summary_sender.send(..) is a plain call, not an await: it overwrites the
\* oldest slot and returns, whatever the receivers have read.
BroadcastSendReady(a) == TRUE

ErrorMsg(a, text) ==
    [kind |-> "error", idx |-> Len(bus[a]) + 1, text |-> text]

SummaryMsg(a, books) ==
    [kind |-> "summary", idx |-> Len(bus[a]) + 1, books |-> books]

ConnectLoopOneMore(exchange, pair, n) ==
    IF stream_order_book_for_pair(exchange, pair) = "Ok"
    THEN [attempts |-> n + 1, ok |-> TRUE]
    ELSE [attempts |-> MaxAttempts + 1, ok |-> FALSE]

ConnectLoopNoBreak(exchange, pair, n) ==
    [attempts |-> MaxAttempts,
     ok |-> stream_order_book_for_pair(exchange, pair) = "Ok"]

\* The retry loop of one exchange, entered with n attempts made: the
\* attempts it ends with, and whether a stream was pushed.
RECURSIVE ConnectLoop(_, _, _)
ConnectLoop(exchange, pair, n) ==
    IF ~(n < MaxAttempts)
    THEN [attempts |-> n, ok |-> FALSE]
    ELSE IF stream_order_book_for_pair(exchange, pair) = "Ok"
         THEN [attempts |-> n + 1, ok |-> TRUE]
         ELSE ConnectLoop(exchange, pair, n + 1)

TooFewConnectedLenient(n) == n < MinSources - 1

\* if orderbook_stream.len() < 2, after the connect loop
TooFewConnected(n) == n < MinSources

\* if orderbook_stream.len() < 2, inside the receive loop
TooFewLive(n) == n < MinSources

InsertBookKeepsFirst(buffer, book) ==
    IF \E b \in buffer : b.source = book.source
    THEN buffer
    ELSE buffer \cup {book}

\* orderbooks.insert(orderbook.source(), (orderbook, received))
InsertBook(buffer, book) ==
    {b \in buffer : b.source # book.source} \cup {book}

DrainKeepsBooks(buffer) == buffer

\* orderbooks.drain(): the map is left empty
Drain(buffer) == {}

CanMergeWithThree(n) == n > MinSources

\* if orderbooks.keys().len() > 1
CanMerge(n) == n > 1

\* merge_orderbooks_into_summary slices ten levels off each side of each
\* book and off the merged sides: it panics on a book that has fewer.
MergePanics(books) == \E b \in books : ~b.deep

\* The task runs from its spawn to its first await: the connect loop over
\* the exchanges and the check that follows it.
AggregatorStart(a) ==
    /\ UNCHANGED sideVars
    /\ aggPc[a] = "spawned"
    /\ LET loop == [e \in ExchangeNames |-> ConnectLoop(e, aggPair[a], 0)]
           streams == {e \in ExchangeNames : loop[e].ok}
       IN  /\ attempts' = [attempts EXCEPT ![a] =
                              [e \in ExchangeNames |-> loop[e].attempts]]
           /\ orderbook_stream' = [orderbook_stream EXCEPT ![a] = streams]
           /\ spawned' = [spawned EXCEPT ![a] =
                             [e \in ExchangeNames |->
                                 IF Spawns(e, aggPair[a])
                                 THEN loop[e].attempts
                                 ELSE 0]]
           /\ IF TooFewConnected(Cardinality(streams))
              THEN /\ BroadcastSendReady(a)
                   /\ bus' = [bus EXCEPT ![a] = Append(@, ErrorMsg(a,
                          <<"Unable to connect to more than one exchange, aggregation not possible for ",
                            aggPair[a]>>))]
                   /\ aggPc' = [aggPc EXCEPT ![a] = "ret_insufficient"]
              ELSE /\ aggPc' = [aggPc EXCEPT ![a] = "running"]
                   /\ UNCHANGED bus
    /\ UNCHANGED <<aggCount, aggPair, orderbooks, received, delivered>>
    /\ UNCHANGED <<frontVars, fwdVars, clientVars>>

\* orderbook_stream.next() yields the next order book of stream e, sent by
\* the adapter task of e: one turn of the receive loop. `deep` tells
\* whether the book holds at least ten levels on each side.
AggregatorNext(a, e, deep) ==
    /\ UNCHANGED sideVars
    /\ aggPc[a] = "running"
    /\ e \in orderbook_stream[a]
    /\ delivered[a][e] < MaxBooks
    /\ LET book == [source |-> e, seq |-> delivered[a][e] + 1,
                    deep |-> deep, at |-> received[a] + 1]
           inserted == InsertBook(orderbooks[a], book)
       IN  /\ delivered' = [delivered EXCEPT ![a][e] = @ + 1]
           /\ received' = [received EXCEPT ![a] = @ + 1]
           /\ IF TooFewLive(Cardinality(orderbook_stream[a]))
              THEN /\ BroadcastSendReady(a)
                   /\ bus' = [bus EXCEPT ![a] =
                          Append(@, ErrorMsg(a,
                              <<"Exchange disconnected, leaving only one connection - unable to aggregate, exiting">>))]
                   /\ aggPc' = [aggPc EXCEPT ![a] = "ret_disconnected"]
                   /\ UNCHANGED orderbooks
              ELSE IF ~CanMerge(Cardinality(inserted))
              THEN /\ orderbooks' = [orderbooks EXCEPT ![a] = inserted]
                   /\ UNCHANGED <<bus, aggPc>>
              ELSE IF MergePanics(inserted)
              THEN /\ orderbooks' = [orderbooks EXCEPT ![a] = {}]
                   /\ aggPc' = [aggPc EXCEPT ![a] = "panicked"]
                   /\ UNCHANGED bus
              ELSE /\ BroadcastSendReady(a)
                   /\ orderbooks' = [orderbooks EXCEPT ![a] = Drain(inserted)]
                   /\ bus' = [bus EXCEPT ![a] = Append(@, SummaryMsg(a, inserted))]
                   /\ UNCHANGED aggPc
    /\ UNCHANGED <<aggCount, aggPair, attempts, orderbook_stream, spawned>>
    /\ UNCHANGED <<frontVars, fwdVars, clientVars>>

\* orderbook_stream.next() finds stream e ended (the adapter task of e is
\* over: connect_async failed, or the websocket closed or errored):
\* SelectAll drops the stream, and yields None, which ends the loop, when
\* it was the last one.
AggregatorStreamEnd(a, e) ==
    /\ UNCHANGED sideVars
    /\ aggPc[a] = "running"
    /\ e \in orderbook_stream[a]
    /\ orderbook_stream' = [orderbook_stream EXCEPT ![a] = @ \ {e}]
    /\ aggPc' = IF orderbook_stream[a] = {e}
                THEN [aggPc EXCEPT ![a] = "ret_end"]
                ELSE aggPc
    /\ UNCHANGED <<aggCount, aggPair, attempts, orderbooks, received, bus, delivered,
                   spawned>>
    /\ UNCHANGED <<frontVars, fwdVars, clientVars>>

(* ----------------------------------------------- handle_subscription_stream *)

NextCursorStuck(n) == n

\* A successful recv moves the receiver past the message it returned.
NextCursor(n) == n + 1

AfterLoopSilent == "done"

\* After the while-let loop the forwarder sends the Unavailable status.
AfterLoop == "final"

\* tx.send(item).await completes at once when the queue has room, and
\* also (with an error the forwarder ignores) when the client has dropped
\* its end; otherwise it waits.
SendCompletes(c) ==
    ~clientOpen[c] \/ Len(clientStream[c]) - clientTaken[c] < ClientQueueCapacity

\* The queue after a completed send of item.
Sent(c, item) ==
    IF clientOpen[c]
    THEN [clientStream EXCEPT ![c] = Append(@, item)]
    ELSE clientStream

\* The forwarder goes on with item in hand: the send is done in the same
\* step when it completes at once, and awaited (at `waiting`) when not.
SendOrWait(c, item, waiting, after) ==
    IF SendCompletes(c)
    THEN /\ clientStream' = Sent(c, item)
         /\ fwdItem' = [fwdItem EXCEPT ![c] = NoItem]
         /\ fwdPc' = [fwdPc EXCEPT ![c] = after]
    ELSE /\ fwdItem' = [fwdItem EXCEPT ![c] = item]
         /\ fwdPc' = [fwdPc EXCEPT ![c] = waiting]
         /\ UNCHANGED clientStream

\* What follows the while-let loop: the Unavailable status is sent and the
\* task ends.
LeaveLoop(c) ==
    IF AfterLoop = "final"
    THEN SendOrWait(c, Unavailable, "final", "done")
    ELSE /\ fwdPc' = [fwdPc EXCEPT ![c] = "done"]
         /\ UNCHANGED <<fwdItem, clientStream>>

\* rx.recv().await: Lagged when the next message was overwritten, the next
\* message when there is one, Closed when the sender is gone. A message is
\* mapped and sent to the client; anything else ends the while-let loop.
ForwarderRecv(c) ==
    /\ UNCHANGED sideVars
    /\ fwdPc[c] = "recv"
    /\ LET a == fwdBus[c]
           tail == Len(bus[a])
       IN  /\ fwdNext[c] < tail \/ Terminated(a)
           /\ IF fwdNext[c] + BusCapacity < tail
              THEN /\ fwdLagged' = [fwdLagged EXCEPT ![c] = TRUE]
                   /\ fwdNext' = [fwdNext EXCEPT ![c] = tail - BusCapacity]
                   /\ LeaveLoop(c)
              ELSE IF fwdNext[c] < tail
              THEN /\ fwdNext' = [fwdNext EXCEPT ![c] = NextCursor(@)]
                   /\ SendOrWait(c, ToClientItem(bus[a][fwdNext[c] + 1]),
                                 "send", "recv")
                   /\ UNCHANGED fwdLagged
              ELSE /\ LeaveLoop(c)
                   /\ UNCHANGED <<fwdNext, fwdLagged>>
    /\ UNCHANGED <<fwdBus, fwdFrom, clientTaken, clientOpen>>
    /\ UNCHANGED <<frontVars, aggVars>>

\* A send that had to wait completes.
ForwarderSend(c) ==
    /\ UNCHANGED sideVars
    /\ fwdPc[c] \in {"send", "final"}
    /\ SendCompletes(c)
    /\ clientStream' = Sent(c, fwdItem[c])
    /\ fwdItem' = [fwdItem EXCEPT ![c] = NoItem]
    /\ fwdPc' = [fwdPc EXCEPT ![c] = IF @ = "send" THEN "recv" ELSE "done"]
    /\ UNCHANGED <<fwdBus, fwdFrom, fwdNext, fwdLagged, clientTaken, clientOpen>>
    /\ UNCHANGED <<frontVars, aggVars>>

(* ------------------------------------------------------------- the client *)

\* The client reads the next item of its ReceiverStream.
ClientTake(c) ==
    /\ UNCHANGED sideVars
    /\ clientOpen[c]
    /\ clientTaken[c] < Len(clientStream[c])
    /\ clientTaken' = [clientTaken EXCEPT ![c] = @ + 1]
    /\ UNCHANGED <<clientStream, clientOpen>>
    /\ UNCHANGED <<frontVars, aggVars, fwdVars>>

ClientDropEvicts(c) ==
    /\ UNCHANGED sideVars
    /\ clientOpen[c]
    /\ callResult[c] = "Ok"
    /\ clientOpen' = [clientOpen EXCEPT ![c] = FALSE]
    /\ clientStream' = [clientStream EXCEPT ![c] = <<>>]
    /\ clientTaken' = [clientTaken EXCEPT ![c] = 0]
    /\ summary_receivers' = [summary_receivers EXCEPT ![callPair[c]] = NoAgg]
    /\ UNCHANGED <<callPc, callPair, callResult, map_lock, new_subscriber,
                   new_request, request_handler>>
    /\ UNCHANGED <<aggVars, fwdVars>>

\* The client disconnects: the receiving end of its queue is dropped, and
\* with it what the queue held.
ClientDrop(c) ==
    /\ UNCHANGED sideVars
    /\ clientOpen[c]
    /\ callResult[c] = "Ok"
    /\ clientOpen' = [clientOpen EXCEPT ![c] = FALSE]
    /\ clientStream' = [clientStream EXCEPT ![c] = <<>>]
    /\ clientTaken' = [clientTaken EXCEPT ![c] = 0]
    /\ UNCHANGED <<frontVars, aggVars, fwdVars>>

(* ------------------------------------- order books and the merge of them *)

\* Prices and quantities are f64 in the source; small whole numbers here.
Prices == {1, 2}
Quantities == {1, 2}
\* struct Order { price, quantity }
Orders == [price : Prices, quantity : Quantities]

\* One side of an order book as an exchange sends it: a list of orders that
\* is one short of the depth, just as deep, or one deeper.
OrderLists == UNION {[1..n -> Orders] : n \in (Depth - 1)..(Depth + 1)}

\* The lists of orders that are at most as deep as the depth asked for.
ShallowLists == {orders \in OrderLists : Len(orders) <= Depth}

\* The same orders with the prices turned over: the lowest becomes the
\* highest.
Mirrored(orders) ==
    [i \in 1..Len(orders) |->
        [price |-> 3 - orders[i].price, quantity |-> orders[i].quantity]]

\* impl PartialOrd for Order: by price alone
partial_cmp(a, b) ==
    IF a.price < b.price THEN "Less"
    ELSE IF a.price > b.price THEN "Greater"
    ELSE "Equal"

partial_cmp_not_reversed(a, b) == partial_cmp(a, b)

\* b.partial_cmp(a), the comparator of Ordering::HighToLow
partial_cmp_reversed(a, b) == partial_cmp(b, a)

sort_as_asks_low_amount_first(self, other) ==
    IF self.price < other.price THEN "Less"
    ELSE IF self.price > other.price THEN "Greater"
    ELSE IF self.amount < other.amount THEN "Less"
    ELSE IF self.amount > other.amount THEN "Greater"
    ELSE "Equal"

\* Level::sort_as_asks: price low to high, then amount high to low
sort_as_asks(self, other) ==
    IF self.price < other.price THEN "Less"
    ELSE IF self.price > other.price THEN "Greater"
    ELSE IF self.amount > other.amount THEN "Less"
    ELSE IF self.amount < other.amount THEN "Greater"
    ELSE "Equal"

sort_as_bids_low_amount_first(self, other) ==
    IF self.price > other.price THEN "Less"
    ELSE IF self.price < other.price THEN "Greater"
    ELSE IF self.amount < other.amount THEN "Less"
    ELSE IF self.amount > other.amount THEN "Greater"
    ELSE "Equal"

\* Level::sort_as_bids: price high to low, then amount high to low
sort_as_bids(self, other) ==
    IF self.price > other.price THEN "Less"
    ELSE IF self.price < other.price THEN "Greater"
    ELSE IF self.amount > other.amount THEN "Less"
    ELSE IF self.amount < other.amount THEN "Greater"
    ELSE "Equal"

\* The closure handed to sort_by, named after the comparison it calls.
Compare(by, a, b) ==
    CASE by = "sort_as_asks" -> sort_as_asks(a, b)
      [] by = "sort_as_bids" -> sort_as_bids(a, b)
      [] by = "LowToHigh" -> partial_cmp(a, b)
      [] by = "HighToLow" -> partial_cmp_reversed(a, b)

\* slice::sort_by, a stable sort: an element comes after the elements that
\* compare Less than it and after the Equal ones that stood before it.
SortBy(s, by) ==
    LET list == s
        placed == {<<Cardinality({j \in 1..Len(list) :
                        \/ Compare(by, list[j], list[i]) = "Less"
                        \/ /\ Compare(by, list[j], list[i]) = "Equal"
                           /\ j < i}), i>> :
                      i \in 1..Len(list)}
    IN  [k \in 1..Len(list) |->
            list[(CHOOSE p \in placed : p[1] = k - 1)[2]]]

\* &orders[..depth] panics when the list is shorter than depth.
SlicePanics(orders, depth) == Len(orders) < depth

\* sort_orders_to_depth, for a list that is deep enough
sort_orders_to_depth(orders, ordering, depth, exchange) ==
    LET sorted == SortBy(orders, ordering)
    IN  [i \in 1..depth |->
            [exchange |-> exchange,
             price |-> sorted[i].price,
             amount |-> sorted[i].quantity]]

\* OrderBook::best_asks and OrderBook::best_bids
best_asks(book, depth) ==
    sort_orders_to_depth(book.asks, "LowToHigh", depth, book.source)

best_bids(book, depth) ==
    sort_orders_to_depth(book.bids, "HighToLow", depth, book.source)

\* asks.append(..) over the books in the order the iterator yields them
RECURSIVE Candidates(_, _)
Candidates(books, side) ==
    IF books = <<>>
    THEN <<>>
    ELSE (IF side = "asks"
          THEN best_asks(Head(books), Depth)
          ELSE best_bids(Head(books), Depth))
             \o Candidates(Tail(books), side)

SummarySpreadReversed(asks, bids) == bids[1].price - asks[1].price

\* spread: asks[0].price - bids[0].price
SummarySpread(asks, bids) == asks[1].price - bids[1].price

merge_orderbooks_without_final_slice(books) ==
    IF \/ books = <<>>
       \/ \E i \in 1..Len(books) :
              \/ SlicePanics(books[i].asks, Depth)
              \/ SlicePanics(books[i].bids, Depth)
    THEN [panicked |-> TRUE]
    ELSE LET asks == SortBy(Candidates(books, "asks"), "sort_as_asks")
             bids == SortBy(Candidates(books, "bids"), "sort_as_bids")
         IN  [panicked |-> FALSE,
              spread |-> SummarySpread(asks, bids),
              asks |-> asks,
              bids |-> bids]

\* merge_orderbooks_into_summary: the Summary, or the panic of a slice that
\* finds too few levels.
merge_orderbooks_into_summary(books) ==
    IF \/ books = <<>>
       \/ \E i \in 1..Len(books) :
              \/ SlicePanics(books[i].asks, Depth)
              \/ SlicePanics(books[i].bids, Depth)
    THEN [panicked |-> TRUE]
    ELSE LET asks == SortBy(Candidates(books, "asks"), "sort_as_asks")
             bids == SortBy(Candidates(books, "bids"), "sort_as_bids")
         IN  [panicked |-> FALSE,
              spread |-> SummarySpread(asks, bids),
              asks |-> SubSeq(asks, 1, Depth),
              bids |-> SubSeq(bids, 1, Depth)]

\* The orders in which a HashMap of two sources can be drained.
DrainOrders == {<<1, 2>>, <<2, 1>>}

\* One book per configured exchange. The asks of the two books are drawn
\* from the lists of orders, the second book's from the shallow ones; the
\* bids of a book are the other book's asks with the prices turned over, so
\* that the best bid of one source lies above or below the best ask of the
\* other.
MergeInit ==
    /\ ServiceInit
    /\ mergePc = "ready"
    /\ \E one \in OrderLists, two \in ShallowLists :
           mergeBooks =
               <<[source |-> exchanges[1],
                  asks |-> one, bids |-> Mirrored(two)],
                 [source |-> exchanges[2],
                  asks |-> two, bids |-> Mirrored(one)]>>
    /\ mergeOrder = <<>>
    /\ mergeSummary = NoSummary
    /\ bestLevels = NoLevels
    /\ AdapterIdle
    /\ RetryIdle
    /\ SortIdle

\* orderbooks.drain() yields the books in some order and the merge is run
\* on them.
MergeOrderbooks(order) ==
    /\ mergePc = "ready"
    /\ mergeOrder' = order
    /\ mergeSummary' = merge_orderbooks_into_summary(
                           [i \in 1..Len(order) |-> mergeBooks[order[i]]])
    /\ mergePc' = "merged"
    /\ UNCHANGED <<mergeBooks, bestLevels>>
    /\ UNCHANGED <<serviceVars, adapterVars, retryVars, sortVars>>

MergeNext == \E order \in DrainOrders : MergeOrderbooks(order)

MergeSpec == MergeInit /\ [][MergeNext]_vars

(* ------------------------------------------------ sorting a Vec<Level> *)

\* struct Level { exchange, price, amount }
Levels == [exchange : ExchangeNames, price : Prices, amount : Quantities]

LevelLists == UNION {[1..n -> Levels] : n \in 0..MaxLevels}

\* Ordering::reverse
Reverse(ordering) ==
    CASE ordering = "Less" -> "Greater"
      [] ordering = "Greater" -> "Less"
      [] ordering = "Equal" -> "Equal"

\* Any list of Levels.
SortInit ==
    /\ ServiceInit
    /\ MergeIdle
    /\ AdapterIdle
    /\ RetryIdle
    /\ levelsIn \in LevelLists
    /\ levelsOut = NoLevels

\* levels.sort_by(|a, b| a.sort_as_asks(b)), or the same with sort_as_bids
SortLevels(by) ==
    /\ levelsOut = NoLevels
    /\ levelsOut' = [by |-> by, levels |-> SortBy(levelsIn, by)]
    /\ UNCHANGED levelsIn
    /\ UNCHANGED <<serviceVars, mergeVars, adapterVars, retryVars>>

SortNext == \E by \in {"sort_as_asks", "sort_as_bids"} : SortLevels(by)

SortSpec == SortInit /\ [][SortNext]_vars

(* ------------------------------------- OrderBook::best_asks and best_bids *)

\* The depths a caller asks for: none, up to more than any book holds.
Depths == 0..(Depth + 2)

\* book.best_asks(depth) or book.best_bids(depth): the levels, or the panic
\* of the slice in sort_orders_to_depth.
OrderBookCall(book, side, depth) ==
    LET orders == IF side = "asks" THEN book.asks ELSE book.bids
    IN  IF SlicePanics(orders, depth)
        THEN [side |-> side, depth |-> depth, panicked |-> TRUE]
        ELSE [side |-> side, depth |-> depth, panicked |-> FALSE,
              levels |-> IF side = "asks"
                         THEN best_asks(book, depth)
                         ELSE best_bids(book, depth)]

\* One order book of either exchange, as a frame of the exchange gives it.
DepthInit ==
    /\ ServiceInit
    /\ mergePc = "ready"
    /\ \E source \in ExchangeNames, orders \in OrderLists :
           mergeBooks = <<[source |-> source,
                           asks |-> orders, bids |-> Mirrored(orders)]>>
    /\ mergeOrder = <<>>
    /\ mergeSummary = NoSummary
    /\ bestLevels = NoLevels
    /\ AdapterIdle
    /\ RetryIdle
    /\ SortIdle

\* A caller asks the book for its best levels of one side.
BestLevels(side, depth) ==
    /\ mergePc = "ready"
    /\ bestLevels' = OrderBookCall(mergeBooks[1], side, depth)
    /\ mergePc' = "called"
    /\ UNCHANGED <<mergeBooks, mergeOrder, mergeSummary>>
    /\ UNCHANGED <<serviceVars, adapterVars, retryVars, sortVars>>

DepthNext == \E side \in {"asks", "bids"}, depth \in Depths : BestLevels(side, depth)

DepthSpec == DepthInit /\ [][DepthNext]_vars

(* ------------------------------------------------------ the adapter tasks *)

\* What ws_stream.next() yields: a text frame that parses as an order book,
\* a ping, a frame that is neither, or the end of the connection (None, or
\* Some(Err(..))).
FrameKinds == {"book", "ping", "other", "end"}

\* serde_json::from_str::<..>(&msg.to_string()) is Ok
Parses(kind) == kind = "book"

LoopGoesOnWhileParsed(kind) == kind = "book"

\* while let Some(Ok(msg)) = ws_stream.next().await
LoopGoesOn(kind) == kind # "end"

\* The receiver of the task's channel is held by the aggregator, in its
\* SelectAll, until the aggregator task ends.
ReceiverHeld(a, e) == aggPc[a] = "running" /\ e \in orderbook_stream[a]

\* The positions at which an adapter task is over.
TaskOver == {"connect_failed", "subscribe_panicked", "closed"}

\* The spawned task starts: connect_async(..).await. On Ok Binance enters
\* its read loop and Bitstamp goes on to subscribe; on Err the task prints
\* the error and ends.
AdapterConnect(a, e, ok) ==
    /\ spawned[a][e] > 0
    /\ adapterPc[a][e] = "idle"
    /\ adapterPc' = [adapterPc EXCEPT ![a][e] =
                         IF ~ok THEN "connect_failed"
                         ELSE IF e = "Bitstamp" THEN "subscribe"
                         ELSE "stream"]
    /\ UNCHANGED <<frames, sent>>
    /\ UNCHANGED <<serviceVars, mergeVars, retryVars, sortVars>>

\* Bitstamp: ws_stream.send(subscription request).await.unwrap(): the task
\* panics when the send fails.
BitstampSubscribe(a, ok) ==
    /\ adapterPc[a]["Bitstamp"] = "subscribe"
    /\ adapterPc' = [adapterPc EXCEPT ![a]["Bitstamp"] =
                         IF ok THEN "response" ELSE "subscribe_panicked"]
    /\ UNCHANGED <<frames, sent>>
    /\ UNCHANGED <<serviceVars, mergeVars, retryVars, sortVars>>

\* Bitstamp: if let Some(response) = ws_stream.next().await: the first
\* thing the websocket yields is taken as the answer to the subscription
\* and printed, whatever it is. After the end of the connection the read
\* loop can only find the end again.
BitstampResponse(a, kind) ==
    /\ adapterPc[a]["Bitstamp"] = "response"
    /\ adapterPc' = [adapterPc EXCEPT ![a]["Bitstamp"] =
                         IF kind = "end" THEN "ending" ELSE "stream"]
    /\ UNCHANGED <<frames, sent>>
    /\ UNCHANGED <<serviceVars, mergeVars, retryVars, sortVars>>

\* One turn of the read loop of either adapter. A frame that parses is
\* boxed and sent on the channel (the error of a send to a dropped receiver
\* is ignored; the channel of 100 has room for the frames of a run); a
\* frame that does not parse is printed. The end of the connection ends
\* the loop and the task.
AdapterFrame(a, e, kind) ==
    /\ adapterPc[a][e] \in {"stream", "ending"}
    /\ adapterPc[a][e] = "ending" => kind = "end"
    /\ kind # "end" => Len(frames[a][e]) < MaxFrames
    /\ LET frame == [kind |-> kind, nr |-> Len(frames[a][e]) + 1]
       IN  /\ frames' = [frames EXCEPT ![a][e] = Append(@, frame)]
           /\ IF LoopGoesOn(kind)
              THEN /\ sent' = IF Parses(kind) /\ ReceiverHeld(a, e)
                              THEN [sent EXCEPT ![a][e] = Append(@, frame)]
                              ELSE sent
                   /\ adapterPc' = [adapterPc EXCEPT ![a][e] = "stream"]
              ELSE /\ adapterPc' = [adapterPc EXCEPT ![a][e] = "closed"]
                   /\ UNCHANGED sent
    /\ UNCHANGED <<serviceVars, mergeVars, retryVars, sortVars>>

\* The aggregator finds the stream of an adapter task that is over ended.
AdapterStreamEnd(a, e) ==
    /\ adapterPc[a][e] \in TaskOver
    /\ AggregatorStreamEnd(a, e)

\* The first subscriber asks for a pair; its aggregator is created and
\* runs its connect phase; the adapter tasks it spawned run.
AdapterNext ==
    \/ \E req \in {EthBtc, XyzBtc} : BookSummaryBegin(1, req)
    \/ BookSummaryLock(1)
    \/ RequestHandler
    \/ \E a \in AggIds : AggregatorStart(a)
    \/ \E a \in AggIds, e \in ExchangeNames, ok \in BOOLEAN : AdapterConnect(a, e, ok)
    \/ \E a \in AggIds, ok \in BOOLEAN : BitstampSubscribe(a, ok)
    \/ \E a \in AggIds, kind \in FrameKinds : BitstampResponse(a, kind)
    \/ \E a \in AggIds, e \in ExchangeNames, kind \in FrameKinds :
           AdapterFrame(a, e, kind)
    \/ \E a \in AggIds, e \in ExchangeNames : AdapterStreamEnd(a, e)

AdapterSpec == Init /\ [][AdapterNext]_vars

(* ------------------------------------ client: connect_to_summary_service *)

\* Err(Status::unavailable("The service is unavailable"))
ClientUnavailable ==
    [kind |-> "status", code |-> "Unavailable",
     text |-> <<"The service is unavailable">>]

\* What summary_stream.message().await returns: Ok(Some(summary)),
\* Err(status) or Ok(None).
MessageKinds == {"summary", "status", "none"}

MayAttemptOnceMore(n, max) == n <= max

\* while attempts < settings.max_attempts
MayAttempt(n, max) == n < max

\* connect_to_summary_service is called with its settings: the task is
\* spawned with attempts = 0 and the stream is returned.
RetryInit ==
    /\ ServiceInit
    /\ MergeIdle
    /\ AdapterIdle
    /\ SortIdle
    /\ cliPc = "loop"
    /\ cliMax \in 0..MaxClientAttempts
    /\ cliAttempts = 0
    /\ cliCalls = 0
    /\ cliServed = 0
    /\ cliItems = <<>>
    /\ cliLog = <<>>

\* One turn of the outer loop: attempts += 1 and connect_to_server_for_pair.
\* On Ok the task reads the response stream; on Err it sleeps and comes
\* back to the loop.
ClientConnect(ok) ==
    /\ cliPc = "loop"
    /\ MayAttempt(cliAttempts, cliMax)
    /\ cliAttempts' = cliAttempts + 1
    /\ cliCalls' = cliCalls + 1
    /\ cliServed' = IF ok THEN cliServed + 1 ELSE cliServed
    /\ cliPc' = IF ok THEN "stream" ELSE "loop"
    /\ cliLog' = Append(cliLog, 0)
    /\ UNCHANGED <<cliMax, cliItems>>
    /\ UNCHANGED <<serviceVars, mergeVars, adapterVars, sortVars>>

AfterSummaryNoReset(n) == n

\* Ok(Some(summary)) => attempts = 0
AfterSummary(n) == 0

\* One turn of the inner loop: a Summary resets attempts and is passed on,
\* a status is passed on, the end of the stream leads back to the outer
\* loop. (The queue of 300 has room for the items of a run.)
ClientMessage(kind) ==
    /\ cliPc = "stream"
    /\ kind # "none" => Len(cliItems) < MaxMessages
    /\ cliAttempts' = IF kind = "summary"
                      THEN AfterSummary(cliAttempts)
                      ELSE cliAttempts
    /\ cliLog' = IF kind = "summary"
                  THEN [cliLog EXCEPT ![Len(cliLog)] = @ + 1]
                  ELSE cliLog
    /\ cliItems' = CASE kind = "summary" ->
                             Append(cliItems, [kind |-> "summary",
                                               nr |-> Len(cliItems) + 1])
                      [] kind = "status" -> Append(cliItems, Unavailable)
                      [] kind = "none" -> cliItems
    /\ cliPc' = IF kind = "none" THEN "loop" ELSE "stream"
    /\ UNCHANGED <<cliMax, cliCalls, cliServed>>
    /\ UNCHANGED <<serviceVars, mergeVars, adapterVars, sortVars>>

\* The outer loop is left: the Unavailable status is sent and the task ends.
ClientGiveUp ==
    /\ cliPc = "loop"
    /\ ~MayAttempt(cliAttempts, cliMax)
    /\ cliItems' = Append(cliItems, ClientUnavailable)
    /\ cliPc' = "done"
    /\ UNCHANGED <<cliMax, cliAttempts, cliCalls, cliServed, cliLog>>
    /\ UNCHANGED <<serviceVars, mergeVars, adapterVars, sortVars>>

RetryNext ==
    \/ \E ok \in BOOLEAN : ClientConnect(ok)
    \/ \E kind \in MessageKinds : ClientMessage(kind)
    \/ ClientGiveUp

RetrySpec == RetryInit /\ [][RetryNext]_vars

(* --------------------------------------------- registry: summary_receivers *)

\* Calls of book_summary for ETH/BTC in its spellings, the request handler
\* and the start of the aggregators it creates.
RegistryNext ==
    \/ \E c \in Calls, req \in Spellings : BookSummaryBegin(c, req)
    \/ \E c \in Calls : BookSummaryLock(c)
    \/ \E c \in Calls : BookSummaryReply(c)
    \/ RequestHandler
    \/ \E a \in AggIds : AggregatorStart(a)

RegistrySpec == Init /\ [][RegistryNext]_vars

\* The tasks of book_summary and the request handler are scheduled: a call
\* that can take the lock, or go on after its reply, does; the handler
\* takes a queued request.
FrontFairness ==
    /\ \A c \in Calls :
           /\ WF_vars(BookSummaryLock(c))
           /\ WF_vars(BookSummaryReply(c))
    /\ WF_vars(RequestHandler)

RegistryFairSpec == RegistrySpec /\ FrontFairness

\* Calls of book_summary around the end of the request handler.
ShutdownNext ==
    \/ \E c \in Calls, req \in {EthBtc, XyzBtc} : BookSummaryBegin(c, req)
    \/ \E c \in Calls : BookSummaryLock(c)
    \/ \E c \in Calls : BookSummaryReply(c)
    \/ \E c \in Calls : BookSummaryNoReply(c)
    \/ RequestHandler
    \/ RequestHandlerEnds
    \/ \E a \in AggIds : AggregatorStart(a)

ShutdownSpec == Init /\ [][ShutdownNext]_vars

(* ------------------------------- an aggregator over a longer catalogue *)

\* OrderbookAggregator::new takes any slice of exchanges: the two of run()
\* and one more.
Catalogue == ExchangeNames \cup {"Kraken"}

\* An aggregator for ETH/BTC built over the catalogue, past its connect
\* phase with two or more of the adapters connected, in its receive loop.
CatalogueInit ==
    /\ callPc = [c \in Calls |-> "idle"]
    /\ callPair = [c \in Calls |-> Absent]
    /\ callResult = [c \in Calls |-> "none"]
    /\ map_lock = NoCall
    /\ summary_receivers = [p \in Keys |-> NoAgg]
    /\ new_subscriber = <<>>
    /\ new_request = [c \in Calls |-> NoAgg]
    /\ request_handler = "running"
    /\ aggCount = 1
    /\ aggPair = [a \in AggIds |-> IF a = 1 THEN EthBtc ELSE Absent]
    /\ aggPc = [a \in AggIds |-> IF a = 1 THEN "running" ELSE "none"]
    /\ \E streams \in SUBSET Catalogue :
           /\ ~TooFewConnected(Cardinality(streams))
           /\ orderbook_stream = [a \in AggIds |-> IF a = 1 THEN streams ELSE {}]
           /\ attempts = [a \in AggIds |-> [e \in Catalogue |->
                              IF a = 1 /\ e \in streams THEN 1
                              ELSE IF a = 1 THEN MaxAttempts ELSE 0]]
           /\ spawned = [a \in AggIds |-> [e \in Catalogue |->
                             IF a = 1 /\ e \in streams THEN 1 ELSE 0]]
    /\ orderbooks = [a \in AggIds |-> {}]
    /\ received = [a \in AggIds |-> 0]
    /\ bus = [a \in AggIds |-> <<>>]
    /\ delivered = [a \in AggIds |-> [e \in Catalogue |-> 0]]
    /\ fwdPc = [c \in Calls |-> "none"]
    /\ fwdBus = [c \in Calls |-> NoAgg]
    /\ fwdFrom = [c \in Calls |-> 0]
    /\ fwdNext = [c \in Calls |-> 0]
    /\ fwdItem = [c \in Calls |-> NoItem]
    /\ fwdLagged = [c \in Calls |-> FALSE]
    /\ clientStream = [c \in Calls |-> <<>>]
    /\ clientTaken = [c \in Calls |-> 0]
    /\ clientOpen = [c \in Calls |-> TRUE]
    /\ MergeIdle
    /\ AdapterIdle
    /\ RetryIdle
    /\ SortIdle

\* The receive loop of that aggregator.
CatalogueNext ==
    \/ \E e \in Catalogue, deep \in BOOLEAN : AggregatorNext(1, e, deep)
    \/ \E e \in Catalogue : AggregatorStreamEnd(1, e)

CatalogueSpec == CatalogueInit /\ [][CatalogueNext]_vars

(* ------------------------------------------------------------ specification *)

Next ==
    \/ \E c \in Calls, req \in Requests : BookSummaryBegin(c, req)
    \/ \E c \in Calls : BookSummaryLock(c)
    \/ \E c \in Calls : BookSummaryReply(c)
    \/ RequestHandler
    \/ \E a \in AggIds : AggregatorStart(a)
    \/ \E a \in AggIds, e \in ExchangeNames, deep \in BOOLEAN :
           AggregatorNext(a, e, deep)
    \/ \E a \in AggIds, e \in ExchangeNames : AggregatorStreamEnd(a, e)
    \/ \E c \in Calls : ForwarderRecv(c)
    \/ \E c \in Calls : ForwarderSend(c)
    \/ \E c \in Calls : ClientTake(c)
    \/ \E c \in Calls : ClientDrop(c)

Spec == Init /\ [][Next]_vars

\* The tokio runtime runs every spawned task that is ready: the steps of
\* the RPC handlers, of the request handler, of the aggregators and of the
\* forwarders are taken when they stay possible. Nothing makes an exchange
\* deliver a book or end its stream, nor a client read or leave.
Fairness ==
    /\ \A c \in Calls :
           /\ WF_vars(BookSummaryLock(c))
           /\ WF_vars(BookSummaryReply(c))
           /\ WF_vars(ForwarderRecv(c))
           /\ WF_vars(ForwarderSend(c))
    /\ WF_vars(RequestHandler)
    /\ \A a \in AggIds : WF_vars(AggregatorStart(a))

FairSpec == Spec /\ Fairness

\* A connected client goes on reading its stream: the response body is
\* polled for as long as the connection takes data.
ClientReads == \A c \in Calls : WF_vars(ClientTake(c))

\* The service with clients that stay connected: a call for a pair that
\* both exchanges list or for one that Bitstamp turns down, a later call
\* that comes when the first aggregator is over, and no disconnect.
ConnectedNext ==
    \/ \E c \in Calls, req \in {EthBtc, XyzBtc} :
           /\ c = 1 \/ Terminated(1)
           /\ BookSummaryBegin(c, req)
    \/ \E c \in Calls : BookSummaryLock(c)
    \/ \E c \in Calls : BookSummaryReply(c)
    \/ RequestHandler
    \/ \E a \in AggIds : AggregatorStart(a)
    \/ \E a \in AggIds, e \in ExchangeNames, deep \in BOOLEAN :
           AggregatorNext(a, e, deep)
    \/ \E a \in AggIds, e \in ExchangeNames : AggregatorStreamEnd(a, e)
    \/ \E c \in Calls : ForwarderRecv(c)
    \/ \E c \in Calls : ForwarderSend(c)
    \/ \E c \in Calls : ClientTake(c)

ConnectedSpec == Init /\ [][ConnectedNext]_vars /\ Fairness /\ ClientReads

(* ------------------------------------------------------------------ claims *)

AggregatorsFor(p) == {a \in AggIds : aggPc[a] # "none" /\ aggPair[a] = p}

Summaries(a) == {i \in 1..Len(bus[a]) : bus[a][i].kind = "summary"}

Errors(a) == {i \in 1..Len(bus[a]) : bus[a][i].kind = "error"}

\* The moment a Summary was published: the receipt of its latest book.
PublishedAt(summary) ==
    CHOOSE t \in {b.at : b \in summary.books} :
        \A b \in summary.books : b.at <= t

QueueFull(c) == Len(clientStream[c]) - clientTaken[c] >= ClientQueueCapacity

StatusItems(c, code) ==
    {i \in 1..Len(clientStream[c]) :
        clientStream[c][i].kind = "status" /\ clientStream[c][i].code = code}

\* C1: whatever the interleaving of the book_summary calls for one pair, at
\* most one aggregator exists for the pair, and every call that has returned
\* a stream is attached to the bus of that aggregator, which is the one the
\* registry holds.
C1_OneAggregatorPerPair ==
    \A p \in Pairs :
        /\ Cardinality(AggregatorsFor(p)) <= 1
        /\ \A c \in Calls :
               (callPair[c] = p /\ callResult[c] = "Ok")
                   => /\ AggregatorsFor(p) = {fwdBus[c]}
                      /\ summary_receivers[p] = fwdBus[c]

\* Two calls for the same pair have both returned, attached to one bus.
C1_Witness ==
    \E c, d \in Calls :
        /\ c # d
        /\ callResult[c] = "Ok" /\ callResult[d] = "Ok"
        /\ callPair[c] = callPair[d]
        /\ fwdBus[c] = fwdBus[d]
        /\ new_request[c] # NoAgg /\ new_request[d] = NoAgg

\* C2: a registry entry never outlives its aggregator: once the aggregator
\* of a (non-empty) pair has terminated the registry holds no entry for the
\* pair, so that the next call creates a fresh aggregator.
C2_EntryRemovedOnTermination ==
    \A p \in Pairs \ {EmptyPair} :
        summary_receivers[p] # NoAgg => ~Terminated(summary_receivers[p])

\* C3: every published Summary is merged from books of at least two
\* distinct sources, each taken by the aggregator after the previous Summary
\* was published and used in no other Summary; what the buffer holds was
\* taken after the last Summary.
C3_SummaryFromFreshBooks ==
    \A a \in AggIds :
        /\ \A i \in Summaries(a) :
               /\ Cardinality({b.source : b \in bus[a][i].books}) >= 2
               /\ \A j \in Summaries(a) :
                      j < i =>
                          /\ bus[a][i].books \cap bus[a][j].books = {}
                          /\ \A b \in bus[a][i].books :
                                 b.at > PublishedAt(bus[a][j])
        /\ \A b \in orderbooks[a] :
               \A j \in Summaries(a) : b.at > PublishedAt(bus[a][j])

\* An aggregator has published two Summaries.
C3_Witness == \E a \in AggIds : Cardinality(Summaries(a)) >= 2

\* C4: an aggregator whose connect phase left fewer than two adapters
\* connected has published exactly one error and nothing else, and has
\* terminated; before the connect phase is over nothing is published.
C4_InsufficientSourcesAtConnect ==
    \A a \in AggIds :
        /\ aggPc[a] \in {"none", "spawned"} => bus[a] = <<>>
        /\ (/\ aggPc[a] \notin {"none", "spawned"}
            /\ Cardinality({e \in ExchangeNames : attempts[a][e] > 0
                   /\ stream_order_book_for_pair(e, aggPair[a]) = "Ok"})
                   < MinSources)
               => /\ aggPc[a] = "ret_insufficient"
                  /\ Len(bus[a]) = 1
                  /\ bus[a][1].kind = "error"

\* An aggregator ended its connect phase with one adapter and has returned.
C4_Witness ==
    \E a \in AggIds :
        /\ aggPc[a] = "ret_insufficient"
        /\ aggPair[a] = XyzBtc
        /\ attempts[a]["Bitstamp"] = MaxAttempts
        /\ Len(bus[a]) = 1

\* C5: an aggregator that was Running and has returned (its live streams
\* fell below two, or all of them ended) has published exactly one error,
\* as the last message of its bus.
C5_ErrorWhenSourcesLost ==
    \A a \in AggIds :
        aggPc[a] \in {"ret_disconnected", "ret_end"}
            => /\ Cardinality(Errors(a)) = 1
               /\ bus[a][Len(bus[a])].kind = "error"

\* The forwarder of c was attached to the bus before its aggregator
\* published the error it terminated with.
AttachedBeforeError(c) ==
    /\ fwdBus[c] # NoAgg
    /\ aggPc[fwdBus[c]] \in {"ret_insufficient", "ret_disconnected"}
    /\ fwdFrom[c] < Len(bus[fwdBus[c]])

\* C6: a subscriber attached before the aggregator terminated for
\* insufficient sources, once its forwarder is over, has received exactly
\* one status, an Internal one, as the last item of its stream.
C6_OneInternalThenClose ==
    \A c \in Calls :
        (AttachedBeforeError(c) /\ fwdPc[c] = "done" /\ clientOpen[c]
             /\ ~fwdLagged[c] /\ callPair[c] # EmptyPair)
            => /\ StatusItems(c, "Internal") = {Len(clientStream[c])}
               /\ StatusItems(c, "Unavailable") = {}

\* C7: the aggregator is never held up by its subscribers: whenever its
\* task is spawned it can run its connect phase, and whenever it is Running
\* and a stream has a book for it, it can take the turn of its loop, the
\* publish included, whatever the state of the forwarders and their queues.
C7_PublishNeverBlocks ==
    \A a \in AggIds :
        /\ aggPc[a] = "spawned" => ENABLED AggregatorStart(a)
        /\ \A e \in ExchangeNames, deep \in BOOLEAN :
               (/\ aggPc[a] = "running"
                /\ e \in orderbook_stream[a]
                /\ delivered[a][e] < MaxBooks)
                   => ENABLED AggregatorNext(a, e, deep)

\* A client lets its queue fill up while the aggregator, which has already
\* published, has a further book to take.
C7_Witness ==
    \E c \in Calls, e \in ExchangeNames :
        /\ clientOpen[c] /\ QueueFull(c)
        /\ fwdBus[c] # NoAgg
        /\ aggPc[fwdBus[c]] = "running"
        /\ Len(bus[fwdBus[c]]) >= 1
        /\ e \in orderbook_stream[fwdBus[c]]
        /\ delivered[fwdBus[c]][e] < MaxBooks

\* C8: a forwarder whose receiver lagged keeps running: the lag does not
\* end its loop nor its stream.
C8_LagDoesNotEndStream ==
    \A c \in Calls : fwdLagged[c] => fwdPc[c] \in {"recv", "send"}

\* C9: the Summaries of one client stream come in strictly increasing
\* publish index.
C9_StreamMonotonic ==
    \A c \in Calls :
        \A i, j \in 1..Len(clientStream[c]) :
            (/\ i < j
             /\ clientStream[c][i].kind = "summary"
             /\ clientStream[c][j].kind = "summary")
                => clientStream[c][i].idx < clientStream[c][j].idx

\* A client stream holds two Summaries.
C9_Witness ==
    \E c \in Calls :
        Cardinality({i \in 1..Len(clientStream[c]) :
                        clientStream[c][i].kind = "summary"}) >= 2

\* C10: a call with an empty pair returns InvalidArgument, and no
\* aggregator and no registry entry exists for the empty pair.
C10_EmptyPairRejected ==
    /\ \A c \in Calls :
           (callPair[c] = EmptyPair /\ callPc[c] = "returned")
               => callResult[c] = "InvalidArgument"
    /\ AggregatorsFor(EmptyPair) = {}
    /\ summary_receivers[EmptyPair] = NoAgg

\* C11: a merge that finds fewer levels than the display depth only skips
\* the tick: it never ends the aggregator task.
C11_ShortBooksSkipTick ==
    \A a \in AggIds : aggPc[a] # "panicked"

\* The Summaries of the client stream of c published after bus position k,
\* in stream order.
SummariesAfter(c, k) ==
    SelectSeq(clientStream[c], LAMBDA m : m.kind = "summary" /\ m.idx > k)

\* The client stream of c without the closing Unavailable status.
Forwarded(c) ==
    SelectSeq(clientStream[c],
              LAMBDA m : ~(m.kind = "status" /\ m.code = "Unavailable"))

\* C16: two subscribers of one pair share one aggregator, which asked each
\* exchange that accepts the pair for exactly one stream; each of the two,
\* unless it lagged, is delivered the Summaries published after both were
\* attached one after the other with none left out, and all of them once
\* its forwarder is over.
C16_SharedAggregatorSameSequence ==
    \A c, d \in Calls :
        (c # d /\ callResult[c] = "Ok" /\ callResult[d] = "Ok"
             /\ callPair[c] = callPair[d])
            => LET a == fwdBus[c]
                   k == IF fwdFrom[c] > fwdFrom[d] THEN fwdFrom[c] ELSE fwdFrom[d]
                   got == SummariesAfter(c, k)
               IN  /\ fwdBus[d] = a
                   /\ AggregatorsFor(callPair[c]) = {a}
                   /\ \A e \in ExchangeNames :
                          stream_order_book_for_pair(e, aggPair[a]) = "Ok"
                              => attempts[a][e] =
                                     IF aggPc[a] = "spawned" THEN 0 ELSE 1
                   /\ (clientOpen[c] /\ ~fwdLagged[c])
                          => /\ \A i \in 1..Len(got) : got[i] = bus[a][k + i]
                             /\ fwdPc[c] = "done"
                                    => {got[i].idx : i \in 1..Len(got)}
                                           = {j \in Summaries(a) : j > k}

\* Two subscribers of one pair have both been delivered a Summary published
\* after both were attached.
C16_Witness ==
    \E c, d \in Calls :
        /\ c # d /\ fwdBus[c] = fwdBus[d] /\ fwdBus[c] # NoAgg
        /\ clientOpen[c] /\ clientOpen[d]
        /\ \E i \in 1..Len(clientStream[c]), j \in 1..Len(clientStream[d]) :
               /\ clientStream[c][i].kind = "summary"
               /\ clientStream[c][i] = clientStream[d][j]
               /\ clientStream[c][i].idx > fwdFrom[c]
               /\ clientStream[c][i].idx > fwdFrom[d]

\* C17: after a subscriber has disconnected the registry still holds the
\* aggregator it was attached to, that aggregator can still take its next
\* turn, and a call for the pair that takes the lock now attaches to the
\* same aggregator at the tail of its bus; the Summaries a subscriber is
\* delivered were published after it joined.
C17_DisconnectLeavesAggregator ==
    \A c \in Calls :
        /\ ~clientOpen[c] =>
               LET a == fwdBus[c]
               IN  /\ summary_receivers[callPair[c]] = a
                   /\ \A e \in ExchangeNames, deep \in BOOLEAN :
                          (/\ aggPc[a] = "running"
                           /\ e \in orderbook_stream[a]
                           /\ delivered[a][e] < MaxBooks)
                              => ENABLED AggregatorNext(a, e, deep)
                   /\ \A d \in Calls :
                          (callPc[d] = "lock" /\ callPair[d] = callPair[c]
                               /\ LockFree)
                              => ENABLED (/\ BookSummaryLock(d)
                                          /\ fwdBus'[d] = a
                                          /\ fwdFrom'[d] = Len(bus[a])
                                          /\ summary_receivers' = summary_receivers
                                          /\ aggCount' = aggCount)
        /\ (clientOpen[c] /\ fwdBus[c] # NoAgg)
               => \A i \in 1..Len(clientStream[c]) :
                      clientStream[c][i].kind = "summary"
                          => clientStream[c][i].idx > fwdFrom[c]

\* The only subscriber of a Running aggregator has disconnected and a
\* further call for the pair is about to look the registry up.
C17_Witness ==
    \E c, d \in Calls :
        /\ ~clientOpen[c] /\ aggPc[fwdBus[c]] = "running"
        /\ callPc[d] = "lock" /\ callPair[d] = callPair[c] /\ LockFree
        /\ \E e \in ExchangeNames : delivered[fwdBus[c]][e] < MaxBooks

\* C18: the items of a client stream before its closing status are the bus
\* messages from the position the forwarder subscribed at, one item per
\* message and in bus order: a Summary as it was published, an error as an
\* Internal status with the error's text.
C18_ForwardedOneToOne ==
    \A c \in Calls :
        (clientOpen[c] /\ fwdBus[c] # NoAgg) =>
            LET a == fwdBus[c]
                items == Forwarded(c)
                inHand == IF fwdPc[c] = "send" THEN 1 ELSE 0
            IN  /\ ~fwdLagged[c] =>
                       Len(items) = fwdNext[c] - fwdFrom[c] - inHand
                /\ \A i \in 1..Len(items) :
                       LET m == bus[a][fwdFrom[c] + i]
                       IN  IF m.kind = "summary"
                           THEN items[i] = m
                           ELSE /\ items[i].kind = "status"
                                /\ items[i].code = "Internal"
                                /\ items[i].text = m.text

\* A client stream holds a Summary and, after it, an Internal status.
C18_Witness ==
    \E c \in Calls :
        /\ clientOpen[c] /\ Len(clientStream[c]) >= 2
        /\ clientStream[c][1].kind = "summary"
        /\ clientStream[c][2].kind = "status"
        /\ clientStream[c][2].code = "Internal"

\* C19: a forwarder that is over has sent exactly one Unavailable status,
\* with the fixed message, as the last item of the client stream; it sent
\* nothing else when the bus carried no message for it; and no Unavailable
\* status is on a stream whose forwarder is not over.
C19_UnavailableLast ==
    \A c \in Calls :
        clientOpen[c] =>
            /\ fwdPc[c] = "done" =>
                   /\ StatusItems(c, "Unavailable") = {Len(clientStream[c])}
                   /\ clientStream[c][Len(clientStream[c])].text
                          = <<"The service failed to provide a response">>
                   /\ Len(bus[fwdBus[c]]) = fwdFrom[c]
                          => Len(clientStream[c]) = 1
            /\ fwdPc[c] # "done" => StatusItems(c, "Unavailable") = {}

\* A forwarder attached to a bus that closed without a message for it is
\* over.
C19_Witness ==
    \E c \in Calls :
        /\ clientOpen[c] /\ fwdPc[c] = "done" /\ ~fwdLagged[c]
        /\ Len(bus[fwdBus[c]]) = fwdFrom[c]
        /\ Len(clientStream[c]) = 1

\* C20: once the client of a subscription has disconnected, the forwarder
\* of the subscription eventually exits.
C20_ForwarderExitsAfterDisconnect ==
    \A c \in Calls : (~clientOpen[c]) ~> (fwdPc[c] = "done")

AsksSorted(levels) ==
    \A i, j \in 1..Len(levels) :
        i < j =>
            \/ levels[i].price < levels[j].price
            \/ /\ levels[i].price = levels[j].price
               /\ levels[i].amount >= levels[j].amount

BidsSorted(levels) ==
    \A i, j \in 1..Len(levels) :
        i < j =>
            \/ levels[i].price > levels[j].price
            \/ /\ levels[i].price = levels[j].price
               /\ levels[i].amount >= levels[j].amount

\* C12: a Summary the merge produced has its asks in ascending price and
\* its bids in descending price, equal prices in descending amount, and at
\* most Depth levels on each side.
C12_SummarySorted ==
    (mergePc = "merged" /\ ~mergeSummary.panicked)
        => /\ AsksSorted(mergeSummary.asks)
           /\ BidsSorted(mergeSummary.bids)
           /\ Len(mergeSummary.asks) <= Depth
           /\ Len(mergeSummary.bids) <= Depth

\* A Summary whose two best asks share a price, come from the two sources
\* and differ in amount.
C12_Witness ==
    /\ mergePc = "merged" /\ ~mergeSummary.panicked
    /\ mergeSummary.asks[1].price = mergeSummary.asks[2].price
    /\ mergeSummary.asks[1].amount > mergeSummary.asks[2].amount
    /\ mergeSummary.asks[1].exchange # mergeSummary.asks[2].exchange

\* C13: the spread of a Summary is the price of its first ask less the
\* price of its first bid.
C13_SpreadIsBestAskLessBestBid ==
    (mergePc = "merged" /\ ~mergeSummary.panicked)
        => mergeSummary.spread
               = mergeSummary.asks[1].price - mergeSummary.bids[1].price

\* A Summary with a negative spread: the best bid, of one source, is above
\* the best ask, of the other.
C13_Witness ==
    /\ mergePc = "merged" /\ ~mergeSummary.panicked
    /\ mergeSummary.spread < 0
    /\ mergeSummary.asks[1].exchange # mergeSummary.bids[1].exchange

\* C14: the merge gives the same result whatever the order in which the
\* books are iterated.
C14_MergeOrderIndependent ==
    mergePc = "merged"
        => mergeSummary = merge_orderbooks_into_summary(mergeBooks)

\* Every level of one side of every book, under the name of its source.
RECURSIVE AllLevels(_, _)
AllLevels(books, side) ==
    IF books = <<>>
    THEN <<>>
    ELSE LET book == Head(books)
             orders == IF side = "asks" THEN book.asks ELSE book.bids
         IN  [i \in 1..Len(orders) |->
                 [exchange |-> book.source,
                  price |-> orders[i].price,
                  amount |-> orders[i].quantity]]
                 \o AllLevels(Tail(books), side)

NoFullTie(levels) ==
    \A i, j \in 1..Len(levels) :
        i # j => ~(/\ levels[i].price = levels[j].price
                   /\ levels[i].amount = levels[j].amount)

FirstN(s, n) == SubSeq(s, 1, IF Len(s) < n THEN Len(s) ELSE n)

\* C15: for books whose levels have no tie on both price and amount, the
\* merged asks are the first Depth of all ask levels in (price ascending,
\* amount descending) order, the merged bids the first Depth of all bid
\* levels in (price descending, amount descending) order, each level under
\* the name of its source.
C15_MergeIsGlobalTopN ==
    (/\ mergePc = "merged"
     /\ NoFullTie(AllLevels(mergeBooks, "asks"))
     /\ NoFullTie(AllLevels(mergeBooks, "bids")))
        => /\ ~mergeSummary.panicked
           /\ mergeSummary.asks =
                  FirstN(SortBy(AllLevels(mergeBooks, "asks"), "sort_as_asks"), Depth)
           /\ mergeSummary.bids =
                  FirstN(SortBy(AllLevels(mergeBooks, "bids"), "sort_as_bids"), Depth)

\* The exchanges whose stream_order_book_for_pair accepts the pair.
Accepting(pair) ==
    {e \in ExchangeNames : stream_order_book_for_pair(e, pair) = "Ok"}

\* C27: in its connect phase an aggregator calls each adapter at most
\* MaxAttempts times: once when the adapter accepts, MaxAttempts times when
\* it refuses, never more; the multiplexed input gets the streams of the
\* accepting adapters and no other; and the phase, once the task is spawned,
\* runs to its end.
C27_ConnectPhaseBounded ==
    \A a \in AggIds :
        /\ \A e \in ExchangeNames : attempts[a][e] <= MaxAttempts
        /\ aggPc[a] \in {"none", "spawned"}
               => /\ orderbook_stream[a] = {}
                  /\ \A e \in ExchangeNames : attempts[a][e] = 0
        /\ aggPc[a] = "spawned"
               => ENABLED (/\ AggregatorStart(a)
                           /\ aggPc'[a] # "spawned"
                           /\ orderbook_stream'[a] = Accepting(aggPair[a]))
        /\ aggPc[a] \notin {"none", "spawned"}
               => /\ orderbook_stream[a] \subseteq Accepting(aggPair[a])
                  /\ \A e \in ExchangeNames :
                         attempts[a][e] =
                             IF e \in Accepting(aggPair[a])
                             THEN 1
                             ELSE MaxAttempts

\* An aggregator is past a connect phase in which Binance accepted at the
\* first call and Bitstamp refused every call.
C27_Witness ==
    \E a \in AggIds :
        /\ aggPc[a] \notin {"none", "spawned"}
        /\ attempts[a]["Binance"] = 1
        /\ attempts[a]["Bitstamp"] = MaxAttempts
        /\ "Bitstamp" \notin orderbook_stream[a]

\* C23: while both exchanges are connected and the aggregator for ETH/BTC
\* runs, the stream of a subscriber that stays connected is not over and
\* carries no status: Summaries can still reach it.
C23_SubscriberReceivesSummaries ==
    \A c \in Calls :
        (/\ callPair[c] = EthBtc /\ callResult[c] = "Ok" /\ clientOpen[c]
         /\ aggPc[fwdBus[c]] = "running"
         /\ orderbook_stream[fwdBus[c]] = ExchangeNames)
            => /\ fwdPc[c] \in {"recv", "send"}
               /\ \A i \in 1..Len(clientStream[c]) :
                      clientStream[c][i].kind = "summary"

\* The sum of the sequence numbers of the books of a Summary.
RECURSIVE SeqSum(_)
SeqSum(books) ==
    IF books = {}
    THEN 0
    ELSE LET b == CHOOSE x \in books : TRUE
         IN  b.seq + SeqSum(books \ {b})

\* C30: the buffer of a Running aggregator holds at most one book per
\* source, the latest the source delivered; and a Summary is merged from
\* the latest book of each source: the books the aggregator had taken when
\* it published are those up to the ones in the Summary.
C30_LatestBookPerSource ==
    \A a \in AggIds :
        /\ aggPc[a] = "running" =>
               \A b \in orderbooks[a] :
                   /\ b.seq = delivered[a][b.source]
                   /\ \A d \in orderbooks[a] : d.source = b.source => d = b
        /\ \A i \in Summaries(a) :
               /\ \A b, d \in bus[a][i].books : d.source = b.source => d = b
               /\ SeqSum(bus[a][i].books) = PublishedAt(bus[a][i])

\* The first Summary of an aggregator holds the second book of a source:
\* the first one was overwritten and published nowhere.
C30_Witness ==
    \E a \in AggIds :
        /\ Len(bus[a]) >= 1
        /\ bus[a][1].kind = "summary"
        /\ \E b \in bus[a][1].books : b.seq = 2
        /\ \E b \in bus[a][1].books : b.seq = 1

NoRepeat(levels) ==
    \A i, j \in 1..Len(levels) : i # j => levels[i] # levels[j]

\* C26: within the asks of a Summary no (exchange, price, amount) comes
\* twice, nor within its bids.
C26_NoDuplicateLevels ==
    (mergePc = "merged" /\ ~mergeSummary.panicked)
        => /\ NoRepeat(mergeSummary.asks)
           /\ NoRepeat(mergeSummary.bids)

Min(a, b) == IF a < b THEN a ELSE b

\* C21: a call of best_asks or best_bids does not fail, and returns as many
\* levels as the depth asked for, or all the levels of that side when the
\* book holds fewer.
C21_BestLevelsNeverFail ==
    mergePc = "called"
        => /\ ~bestLevels.panicked
           /\ Len(bestLevels.levels)
                  = Min(bestLevels.depth,
                        Len(IF bestLevels.side = "asks"
                            THEN mergeBooks[1].asks
                            ELSE mergeBooks[1].bids))

\* C22: a call of stream_order_book_for_pair that the allowlist turns down
\* has spawned no task and opened no websocket: for an exchange that
\* refuses the pair of an aggregator no adapter task exists and none has
\* taken a step, and the connect phase has got its MaxAttempts errors.
C22_RefusedPairSpawnsNothing ==
    \A a \in AggIds, e \in ExchangeNames :
        (aggPc[a] # "none" /\ stream_order_book_for_pair(e, aggPair[a]) = "Err")
            => /\ spawned[a][e] = 0
               /\ adapterPc[a][e] = "idle"
               /\ frames[a][e] = <<>>
               /\ aggPc[a] # "spawned" => attempts[a][e] = MaxAttempts

\* Bitstamp has refused the pair of an aggregator five times and runs no
\* task, while the task Binance spawned has been at its websocket.
C22_Witness ==
    \E a \in AggIds :
        /\ aggPair[a] = XyzBtc
        /\ attempts[a]["Bitstamp"] = MaxAttempts
        /\ spawned[a]["Bitstamp"] = 0
        /\ spawned[a]["Binance"] = 1
        /\ adapterPc[a]["Binance"] # "idle"

\* C28: an adapter whose websocket handshake or subscription failed, and
\* whose stream the aggregator has given up, was called MaxAttempts times.
C28_FailedAdapterRetried ==
    \A a \in AggIds, e \in ExchangeNames :
        (/\ adapterPc[a][e] \in {"connect_failed", "subscribe_panicked"}
         /\ e \notin orderbook_stream[a])
            => attempts[a][e] = MaxAttempts

\* The frames of a list that parse as order books, in their order.
Parsed(list) == SelectSeq(list, LAMBDA f : Parses(f.kind))

\* C29: a frame that does not parse produces no order book and does not
\* end the task: the order books on the channel of an adapter task are the
\* frames that parse, in the order of their arrival, and the task is over
\* only once its websocket has yielded the end of the connection.
C29_UnparseableFramesDropped ==
    \A a \in AggIds, e \in ExchangeNames :
        /\ aggPc[a] # "ret_insufficient" => sent[a][e] = Parsed(frames[a][e])
        /\ \A i \in 1..Len(frames[a][e]) :
               frames[a][e][i].kind = "end"
                   <=> (i = Len(frames[a][e]) /\ adapterPc[a][e] = "closed")
        /\ adapterPc[a][e] = "closed" => frames[a][e] # <<>>

\* An adapter task has read a frame that does not parse and, after it, two
\* that do, and both are on its channel.
C29_Witness ==
    \E a \in AggIds, e \in ExchangeNames :
        /\ Len(frames[a][e]) >= 3
        /\ ~Parses(frames[a][e][1].kind)
        /\ Len(sent[a][e]) = 2
        /\ sent[a][e][1].nr = 2
        /\ sent[a][e][2].nr = 3

\* C24: the client task, once over, has sent its Unavailable status exactly
\* once, as the last item of the stream, with its attempts exhausted; when
\* every attempt failed it made exactly max_attempts attempts and sent
\* nothing else; before it is over the status is not on the stream; and
\* with the attempts exhausted it can always send the status and end.
C24_ClientGivesUpAfterMaxAttempts ==
    LET finals == {i \in 1..Len(cliItems) : cliItems[i] = ClientUnavailable}
    IN  /\ cliPc = "done"
               => /\ finals = {Len(cliItems)}
                  /\ cliAttempts = cliMax
                  /\ cliServed = 0
                         => cliCalls = cliMax /\ Len(cliItems) = 1
        /\ cliPc \in {"loop", "stream"} => finals = {}
        /\ (cliPc = "loop" /\ cliAttempts >= cliMax)
               => ENABLED (ClientGiveUp /\ cliPc' = "done")
        /\ cliServed = 0 => cliCalls <= cliMax

\* The task is over after the server had accepted it, sent a Summary and
\* hung up: it has made more attempts than max_attempts in all.
C24_Witness ==
    /\ cliPc = "done"
    /\ cliServed > 0
    /\ cliCalls > cliMax
    /\ \E i \in 1..Len(cliItems) : cliItems[i].kind = "summary"

\* C25: two calls that were given a stream share an aggregator exactly when
\* their TradedPairs are equal in both components, case-sensitively; equal
\* pairs hash equally; and spellings of one pair that differ in case or in
\* the split, although they have the same symbol_lower, have separate
\* entries.
C25_RegistryKeyedByExactPair ==
    /\ \A c, d \in Calls :
           (callResult[c] = "Ok" /\ callResult[d] = "Ok")
               => ((fwdBus[c] = fwdBus[d])
                       <=> (/\ callPair[c].first = callPair[d].first
                            /\ callPair[c].second = callPair[d].second))
    /\ \A p, q \in Keys : eq(p, q) => hash(p) = hash(q)
    /\ \A p, q \in Spellings :
           /\ symbol_lower(p) = symbol_lower(q)
           /\ (/\ p # q
               /\ summary_receivers[p] # NoAgg
               /\ summary_receivers[q] # NoAgg)
                  => summary_receivers[p] # summary_receivers[q]
    /\ \A c \in Calls :
           callResult[c] = "Ok" => summary_receivers[callPair[c]] = fwdBus[c]

\* Two calls for ETH/BTC spelled in different case were both given a stream,
\* from different aggregators.
C25_Witness ==
    \E c, d \in Calls :
        /\ callResult[c] = "Ok" /\ callResult[d] = "Ok"
        /\ callPair[c] = EthBtc /\ callPair[d] = EthBtcLower
        /\ symbol_lower(callPair[c]) = symbol_lower(callPair[d])
        /\ fwdBus[c] # fwdBus[d]
        /\ fwdBus[c] # NoAgg /\ fwdBus[d] # NoAgg

\* How often a level stands in a list.
Count(list, level) == Cardinality({i \in 1..Len(list) : list[i] = level})

\* The comparator is a total preorder on the levels of a list: turning the
\* arguments over reverses the answer, Equal is given exactly to levels of
\* the same price and amount, and "not after" is transitive.
TotalPreorder(by, list) ==
    LET NotAfter(a, b) == Compare(by, a, b) \in {"Less", "Equal"}
    IN  /\ \A i, j \in 1..Len(list) :
               /\ Compare(by, list[j], list[i])
                      = Reverse(Compare(by, list[i], list[j]))
               /\ Compare(by, list[i], list[j]) = "Equal"
                      <=> (/\ list[i].price = list[j].price
                           /\ list[i].amount = list[j].amount)
        /\ \A i, j, k \in 1..Len(list) :
               (NotAfter(list[i], list[j]) /\ NotAfter(list[j], list[k]))
                   => NotAfter(list[i], list[k])

\* The list of the tie-break example and its asks order, with the two
\* prices and the two amounts of the model.
TieBreakExample ==
    LET L(price, amount) ==
            [exchange |-> exchanges[1], price |-> price, amount |-> amount]
    IN  [unsorted |-> <<L(1, 2), L(2, 1), L(2, 2), L(1, 1)>>,
         asks |-> <<L(1, 2), L(1, 1), L(2, 2), L(2, 1)>>,
         bids |-> <<L(2, 2), L(2, 1), L(1, 2), L(1, 1)>>]

OrderOf(level) == [price |-> level.price, quantity |-> level.amount]

\* The orders of a list that are not all among the levels.
LeftOut(orders, levels) ==
    {i \in 1..Len(orders) :
        Cardinality({k \in 1..Len(levels) : OrderOf(levels[k]) = orders[i]})
            < Count(orders, orders[i])}

C33_BufferHoldsAtMostOneBook ==
    \A a \in AggIds :
        /\ Cardinality(orderbooks[a]) <= 1
        /\ \A i \in Summaries(a) :
               /\ Cardinality(bus[a][i].books) = 2
               /\ Cardinality({b.source : b \in bus[a][i].books}) = 2

\* Three adapters are connected; a Summary of two of them is on the bus and
\* the buffer holds a later book of the third alone.
C33_Witness ==
    /\ Cardinality(orderbook_stream[1]) = 3
    /\ aggPc[1] = "running"
    /\ \E i \in Summaries(1), b \in orderbooks[1] :
           /\ b.source \notin {x.source : x \in bus[1][i].books}
           /\ b.at > PublishedAt(bus[1][i])

\* C34: a Summary the merge produced has exactly Depth asks and exactly
\* Depth bids (Depth stands for the 10 of the source), and the books it was
\* made of held at least Depth levels on each side between them.
C34_SummaryHasFullDepth ==
    (mergePc = "merged" /\ ~mergeSummary.panicked)
        => /\ Len(mergeSummary.asks) = Depth
           /\ Len(mergeSummary.bids) = Depth
           /\ Len(AllLevels(mergeBooks, "asks")) >= Depth
           /\ Len(AllLevels(mergeBooks, "bids")) >= Depth

\* A Summary merged from books that held more asks than it shows: one book
\* deeper than Depth, the other just as deep.
C34_Witness ==
    /\ mergePc = "merged"
    /\ ~mergeSummary.panicked
    /\ Len(mergeBooks[1].asks) > Depth
    /\ Len(mergeBooks[2].asks) = Depth
    /\ Len(mergeSummary.asks) = Depth

\* What a forwarder has taken off its bus for the client: the items of the
\* client's queue and the one in hand.
TakenFor(c) ==
    IF fwdItem[c] = NoItem THEN clientStream[c] ELSE Append(clientStream[c], fwdItem[c])

\* C35: a forwarder is attached at the tail the bus has at that moment, on
\* the first subscription of a pair as on a later one; and what it takes
\* for its client was published after that: every Summary has a later
\* position on the bus, and an Internal status stems from an error
\* published later.
C35_OnlyMessagesAfterAttachment ==
    \A c \in Calls :
        /\ ~ENABLED (/\ BookSummaryReply(c)
                     /\ \/ fwdFrom'[c] # Len(bus[new_request[c]])
                        \/ fwdNext'[c] # Len(bus[new_request[c]]))
        /\ ~ENABLED (/\ BookSummaryLock(c)
                     /\ fwdPc'[c] = "recv"
                     /\ \/ fwdFrom'[c] # Len(bus[fwdBus'[c]])
                        \/ fwdNext'[c] # Len(bus[fwdBus'[c]]))
        /\ fwdBus[c] # NoAgg
               => /\ fwdFrom[c] <= fwdNext[c]
                  /\ \A i \in 1..Len(TakenFor(c)) :
                         LET item == TakenFor(c)[i]
                         IN  /\ item.kind = "summary" => item.idx > fwdFrom[c]
                             /\ (item.kind = "status" /\ item.code = "Internal")
                                    => \E e \in Errors(fwdBus[c]) : e > fwdFrom[c]
                  /\ (\A e \in Errors(fwdBus[c]) : e <= fwdFrom[c])
                         => \A i \in 1..Len(TakenFor(c)) :
                                ~(/\ TakenFor(c)[i].kind = "status"
                                  /\ TakenFor(c)[i].code = "Internal")

\* The first subscriber of a pair was attached after its aggregator had
\* published its error: its forwarder has ended and the client was given
\* the Unavailable status alone.
C35_Witness ==
    \E c \in Calls :
        /\ callResult[c] = "Ok"
        /\ \A d \in Calls : d < c => callPair[d] # callPair[c]
        /\ fwdBus[c] # NoAgg
        /\ fwdFrom[c] > 0
        /\ Errors(fwdBus[c]) = {1}
        /\ fwdPc[c] = "done"
        /\ clientOpen[c]
        /\ clientStream[c] = <<Unavailable>>

\* The task of the aggregator is over, by a return or by a panic.
Ended(a) ==
    aggPc[a] \in {"ret_insufficient", "ret_disconnected", "ret_end", "panicked"}

C37_CallsReturnAndLockIsReleased ==
    /\ \A c \in Calls :
           (callPc[c] \in {"lock", "await_reply"}) ~> (callPc[c] = "returned")
    /\ (map_lock # NoCall) ~> (map_lock = NoCall)
    /\ [](request_handler = "running"
              => \A c \in Calls :
                     /\ map_lock = c => callPc[c] = "await_reply"
                     /\ (callPc[c] = "await_reply" /\ new_request[c] = NoAgg)
                            => \E i \in 1..Len(new_subscriber) :
                                   new_subscriber[i].call = c)

\* A call for one pair stands before the lock while the first call for
\* another pair holds it, its request not yet taken by the request handler.
C37_Witness ==
    \E c, d \in Calls :
        /\ map_lock = c
        /\ callPc[c] = "await_reply"
        /\ new_request[c] = NoAgg
        /\ callPc[d] = "lock"
        /\ callPair[d] # callPair[c]
        /\ request_handler = "running"

\* What C38 says of a call that fails for want of a request handler, said
\* of the step that ends the call.
FailsCleanly(c) ==
    /\ callPc'[c] = "returned"
    /\ callResult'[c] = "Unknown"
    /\ summary_receivers' = summary_receivers
    /\ fwdPc' = fwdPc
    /\ fwdBus' = fwdBus
    /\ map_lock' = NoCall

\* C38: once the request handler has ended, a call for a pair without a
\* registry entry can only return an error status, with the registry as it
\* was, no forwarder spawned and the lock free; so does a call whose
\* request was still queued when the handler ended. A call that got the
\* error status has no forwarder and left no entry for its pair.
C38_CallFailsWhenRequestHandlerEnded ==
    \A c \in Calls :
        /\ (/\ request_handler = "ended"
            /\ callPc[c] = "lock"
            /\ LockFree
            /\ summary_receivers[Slot(callPair[c])] = NoAgg)
               => /\ ENABLED (BookSummaryLock(c) /\ FailsCleanly(c))
                  /\ ~ENABLED (BookSummaryLock(c) /\ ~FailsCleanly(c))
        /\ (/\ request_handler = "ended"
            /\ callPc[c] = "await_reply"
            /\ new_request[c] = NoAgg)
               => /\ ENABLED (BookSummaryNoReply(c) /\ FailsCleanly(c))
                  /\ ~ENABLED BookSummaryReply(c)
        /\ callResult[c] = "Unknown"
               => /\ request_handler = "ended"
                  /\ callPc[c] = "returned"
                  /\ fwdPc[c] = "none"
                  /\ fwdBus[c] = NoAgg
                  /\ summary_receivers[Slot(callPair[c])] = NoAgg
                  /\ map_lock # c

\* The request handler has ended and both calls have returned the error
\* status; the registry is empty, no aggregator was made, the lock is free.
C38_Witness ==
    /\ request_handler = "ended"
    /\ \A c \in Calls : callPc[c] = "returned" /\ callResult[c] = "Unknown"
    /\ \A k \in DOMAIN summary_receivers : summary_receivers[k] = NoAgg
    /\ map_lock = NoCall
    /\ aggCount = 0

\* The pair of aggregator a is not on Bitstamp's allowlist.
NotOnBitstamp(a) == symbol_lower(aggPair[a]) \notin VALID_PAIRS

\* C39: with Binance and Bitstamp as the catalogue, the aggregator of a
\* pair that Bitstamp's allowlist does not hold has, once its connect phase
\* is over, called Bitstamp exactly 5 times without any call spawning an
\* adapter, and has returned with one error as all it ever published; its
\* start can do nothing else.
C39_PairRefusedByBitstamp ==
    \A a \in AggIds :
        (aggPc[a] # "none" /\ NotOnBitstamp(a))
            => /\ aggPc[a] \in {"spawned", "ret_insufficient"}
               /\ aggPc[a] = "spawned"
                      => /\ ENABLED AggregatorStart(a)
                         /\ ~ENABLED (/\ AggregatorStart(a)
                                       /\ aggPc'[a] # "ret_insufficient")
               /\ aggPc[a] = "ret_insufficient"
                      => /\ attempts[a]["Bitstamp"] = 5
                         /\ spawned[a]["Bitstamp"] = 0
                         /\ "Bitstamp" \notin orderbook_stream[a]
                         /\ Cardinality(Errors(a)) = 1
                         /\ Summaries(a) = {}
                         /\ Len(bus[a]) = 1
                         /\ delivered[a] = [e \in ExchangeNames |-> 0]

\* The aggregator of XYZ/BTC has returned after five refusals by Bitstamp,
\* and the subscriber that caused it has been sent the error.
C39_Witness ==
    \E a \in AggIds, c \in Calls :
        /\ exchanges = <<"Binance", "Bitstamp">>
        /\ aggPc[a] = "ret_insufficient"
        /\ NotOnBitstamp(a)
        /\ attempts[a]["Bitstamp"] = 5
        /\ Cardinality(Errors(a)) = 1
        /\ fwdBus[c] = a
        /\ clientStream[c] # <<>>
        /\ clientStream[c][1].kind = "status"

\* The number of attempts at the end of the log that delivered no Summary.
RECURSIVE TrailingDry(_)
TrailingDry(log) ==
    IF log = <<>> \/ log[Len(log)] > 0
    THEN 0
    ELSE 1 + TrailingDry(SubSeq(log, 1, Len(log) - 1))

\* A step in which the client task passes on a status of the server.
StatusForwarded ==
    /\ cliPc = "stream"
    /\ Len(cliItems') = Len(cliItems) + 1
    /\ cliItems'[Len(cliItems')].kind = "status"

\* C40: the attempt counter of the client task is the number of attempts,
\* counted back from the latest, that delivered no Summary, so the task is
\* over, its final status sent, only with max_attempts such attempts in a
\* row behind it, and cannot end before. The stream it returned only grows
\* at its end, so items are passed on in the order received; and passing
\* on a status of the server leaves the task reading the same response
\* stream with its counter as it was.
C40_ResetOnSummaryAndStatusForwarded ==
    /\ [](/\ cliPc # "idle" => cliAttempts = TrailingDry(cliLog)
          /\ cliPc = "done"
                 => /\ TrailingDry(cliLog) = cliMax
                    /\ cliItems[Len(cliItems)] = ClientUnavailable
          /\ (cliPc = "loop" /\ TrailingDry(cliLog) < cliMax)
                 => ~ENABLED ClientGiveUp
          /\ (cliPc = "stream" /\ Len(cliItems) < MaxMessages)
                 => ENABLED (ClientMessage("status") /\ StatusForwarded))
    /\ [][/\ \/ cliItems' = cliItems
              \/ /\ Len(cliItems') = Len(cliItems) + 1
                 /\ SubSeq(cliItems', 1, Len(cliItems)) = cliItems
           /\ StatusForwarded
                  => /\ cliPc' = "stream"
                     /\ cliAttempts' = cliAttempts
                     /\ cliItems'[Len(cliItems')] # ClientUnavailable]_vars

\* The task is over: a status of the server was passed on, then a Summary
\* came on the same response stream and reset the counter, and the final
\* status followed after max_attempts further attempts without a Summary.
C40_Witness ==
    /\ cliPc = "done"
    /\ cliMax >= 1
    /\ Len(cliItems) = 3
    /\ cliItems[1].kind = "status" /\ cliItems[1] # ClientUnavailable
    /\ cliItems[2].kind = "summary"
    /\ cliItems[3] = ClientUnavailable
    /\ Len(cliLog) = cliMax + 1
    /\ cliLog[1] = 1

====
